---- MODULE Spec2Model ----
(***************************************************************************)
(* Model of a2sensor/sensor_denormalizer/denormalizer.py: the Denormalizer *)
(* class (configure, latest_measure_file, latest_measure, save_output_file,*)
(* format_date, refresh_output_file, run).                                 *)
(*                                                                         *)
(* Python values are modelled as follows.                                  *)
(*   dict            a TLA+ record; a missing key is a missing field       *)
(*   ordered dict    a sequence of [id, attrs] pairs (insertion order)     *)
(*   str (file name) a sequence of code points, compared lexicographically *)
(*   None, JSON null the record NoneVal                                    *)
(*   a call          a record [exc |-> "none", val |-> v] when it returns  *)
(*                   v and [exc |-> e] when it raises e                    *)
(***************************************************************************)
EXTENDS Integers, Sequences, FiniteSets, TLC

\* ------------------------------------------------------------------ bounds
\* number of refresh cycles one run of the model starts
MaxCycles == 2
\* largest instant (in clock ticks) datetime.now() returns
MaxClock == 2
\* clock ticks per second: format_date renders an instant down to the second
TicksPerSecond == 2

\* ------------------------------------------------------- program constants
\* the "not wired" sentinel of refresh_output_file
NotWired == -1

\* ------------------------------------------------------------- input sets
SensorIds == {"s1", "s2"}

\* display name the configuration file gives a sensor
ConfiguredName(id) == IF id = "s1" THEN "Temp1(config)" ELSE "Temp2(config)"

\* attribute tables a sensor can have in sensors.toml: pin absent, pin = -1, pin wired
AttributeTables(id) ==
    { [name |-> ConfiguredName(id)],
      [name |-> ConfiguredName(id), pin |-> NotWired],
      [name |-> ConfiguredName(id), pin |-> 4] }

\* injective sequences over S of length n
RECURSIVE Arrangements(_, _)
Arrangements(S, n) ==
    IF n = 0 THEN { <<>> }
    ELSE UNION { { Append(a, x) : x \in S \ { a[k] : k \in 1..Len(a) } }
                 : a \in Arrangements(S, n - 1) }

\* all orders in which the elements of S can be listed
Perms(S) == Arrangements(S, Cardinality(S))

\* parsed sensors.toml documents: tables in file order, table names distinct
ConfigFiles ==
    UNION { UNION { { [k \in 1..Len(ids) |-> [id |-> ids[k], attrs |-> f[k]]]
                      : f \in { g \in [1..Len(ids) -> UNION { AttributeTables(s) : s \in SensorIds }]
                                : \A k \in 1..Len(ids) : g[k] \in AttributeTables(ids[k]) } }
                    : ids \in Arrangements(SensorIds, n) }
            : n \in 0..Cardinality(SensorIds) }

\* ---------------------------------------------------- measurement files
\* None, and JSON null
NoneVal == [none |-> TRUE]

\* a measurement as sensor-collect writes it
GoodDoc == [name |-> "Temp", value |-> [status |-> "ok", timestamp |-> 0, unit |-> "C"]]

\* a JSON value that is no object (null, a string, a number, an array): it has
\* no get method
NonObject == [nonobject |-> TRUE]

\* the document a measurement file holds, by the kind of file; no two
\* documents have the same keys throughout and a null where the other has a
\* string or a number, which TLC cannot compare
DocOf(tag) ==
    CASE tag = "withid" ->
            [id |-> "other", name |-> "Temp", value |-> [status |-> "ok", timestamp |-> 0]]
      [] tag = "nostatus" ->
            [name |-> "Temp", value |-> [timestamp |-> 0, unit |-> "C"]]
      [] tag = "notimestamp" ->
            [name |-> "Temp", value |-> [status |-> "ok"]]
      [] tag = "novalue" ->
            [name |-> "Temp"]
      [] tag = "nullvalue" ->
            [name |-> "Temp", value |-> NonObject]
      [] tag = "nullstatus" ->
            [name |-> "Temp", value |-> [status |-> NoneVal, timestamp |-> 0]]
      [] tag = "nulltimestamp" ->
            [value |-> [status |-> "ok", timestamp |-> NoneVal]]
      [] tag = "nonobject" ->
            NonObject
      [] OTHER -> GoodDoc

\* a file: can it be opened, does its text parse as JSON, and the parsed document
FileBody(tag) ==
    [readable |-> tag # "unreadable", parses |-> tag # "corrupt", doc |-> DocOf(tag)]

\* a directory entry: a regular file with a body, or a subdirectory
FileEntry(n, tag) == [name |-> n, isfile |-> TRUE, body |-> FileBody(tag)]
SubdirEntry(n) == [name |-> n, isfile |-> FALSE, body |-> FileBody("good")]

\* what <storageFolder>/<sensorId> can be: nothing, a regular file, a directory
AbsentNode == [kind |-> "absent", entries |-> {}]
FileNode == [kind |-> "file", entries |-> {}]
DirNode(es) == [kind |-> "dir", entries |-> es]

\* directories over the names ns: every name is absent, a subdirectory, or a
\* regular file with one of the bodies tags
DirNodes(ns, tags) ==
    { DirNode({ IF f[n] = "subdir" THEN SubdirEntry(n) ELSE FileEntry(n, f[n])
                : n \in { m \in ns : f[m] # "none" } })
      : f \in [ns -> tags \cup { "none", "subdir" }] }

\* ------------------------------------------------------- Python helpers
\* v is None, for a v that is None or a dict
IsNone(v) == "none" \in DOMAIN v

Return(v) == [exc |-> "none", val |-> v]
Raise(e) == [exc |-> e]

\* dict.get(key, default)
Get(d, key, default) == IF key \in DOMAIN d THEN d[key] ELSE default

\* v is None, for a v of any type (a string and a record only compare as text)
IsNull(v) == ToString(v) = ToString(NoneVal)

\* d.get(key, None) is not None
NotNone(d, key) == ~IsNull(Get(d, key, NoneVal))

\* the empty dict
EmptyDict == [k \in {} |-> 0]

\* the value has a get method
IsDict(v) == "nonobject" \notin DOMAIN v

\* str < str: code point by code point, a proper prefix is smaller
RECURSIVE StrLess(_, _)
StrLess(a, b) ==
    IF b = <<>> THEN FALSE
    ELSE IF a = <<>> THEN TRUE
    ELSE IF a[1] # b[1] THEN a[1] < b[1]
    ELSE StrLess(Tail(a), Tail(b))

\* os.path.join(os.path.join(storage_folder, sensorId), f)
PathJoin(sensorId, f) == [dir |-> sensorId, base |-> f]

\* os.path.basename
basename(path) == path.base

\* self.sensors[sensorId]
SensorAttrs(sens, sensorId) ==
    sens[CHOOSE k \in 1..Len(sens) : sens[k].id = sensorId].attrs

\* ------------------------------------------------------------ the code
\* self.sensors[sensor] = attributes: a key the dict has keeps its place, a new
\* key goes last
SetItem(sens, sensor, attributes) ==
    IF \E k \in 1..Len(sens) : sens[k].id = sensor
    THEN [k \in 1..Len(sens) |->
             IF sens[k].id = sensor THEN [id |-> sensor, attrs |-> attributes] ELSE sens[k]]
    ELSE Append(sens, [id |-> sensor, attrs |-> attributes])

\* the for loop of configure from the table at position k on
RECURSIVE ConfigureFrom(_, _, _)
ConfigureFrom(sens, config, k) ==
    IF k > Len(config) THEN sens
    ELSE ConfigureFrom(SetItem(sens, config[k].id,
                               [index |-> k - 1] @@ config[k].attrs),
                       config, k + 1)

\* Denormalizer.configure on the mapping sens: every table of the file, in file
\* order, is stored under its name with index set to its position, over
\* whatever the table and the mapping had
configure(sens, config) == ConfigureFrom(sens, config, 1)

\* Denormalizer.format_date: strftime("%Y-%m-%d %H:%M:%S %z"), the instant's second
format_date(date) == date \div TicksPerSecond

\* max(files, key=os.path.basename): the first element no later one exceeds
RECURSIVE MaxFrom(_, _, _)
MaxFrom(files, k, best) ==
    IF k > Len(files) THEN best
    ELSE MaxFrom(files, k + 1,
                 IF StrLess(basename(best), basename(files[k])) THEN files[k] ELSE best)

MaxByBasename(files) == MaxFrom(files, 2, files[1])

\* RegularFiles without the os.path.isfile filter
RegularFiles_All(sensorId, listing) ==
    [k \in 1..Len(listing) |-> PathJoin(sensorId, listing[k].name)]

\* the comprehension of latest_measure_file: the paths of the regular files, in
\* the order os.listdir returned the entries
RegularFiles(sensorId, listing) ==
    LET kept == SelectSeq(listing, LAMBDA e : e.isfile)
    IN  [k \in 1..Len(kept) |-> PathJoin(sensorId, kept[k].name)]

\* latest_measure_file without the os.path.exists test
latest_measure_file_NoExists(node, sensorId, listing) ==
    IF node.kind # "dir"
    THEN Raise(IF node.kind = "absent" THEN "FileNotFoundError" ELSE "NotADirectoryError")
    ELSE LET files == RegularFiles(sensorId, listing)
         IN  IF files = <<>> THEN Raise("ValueError")
             ELSE Return(MaxByBasename(files))

\* Denormalizer.latest_measure_file; listing is what os.listdir returns
latest_measure_file(node, sensorId, listing) ==
    IF node.kind # "absent"
    THEN IF node.kind # "dir"
         THEN Raise("NotADirectoryError")
         ELSE LET files == RegularFiles(sensorId, listing)
              IN  IF files = <<>> THEN Raise("ValueError")
                  ELSE Return(MaxByBasename(files))
    ELSE Return(NoneVal)

\* the file a path names
FileAt(node, path) == (CHOOSE e \in node.entries : e.name = basename(path)).body

\* the record latest_measure makes up when there is no measurement file
SyntheticMeasure(sens, sensorId, now) ==
    [id |-> sensorId,
     name |-> SensorAttrs(sens, sensorId).name,
     value |-> [status |-> "unknown", timestamp |-> format_date(now)]]

\* Denormalizer.latest_measure; now is what datetime.now() returns
latest_measure(sens, node, sensorId, listing, now) ==
    LET measure_file == latest_measure_file(node, sensorId, listing)
    IN  IF measure_file.exc # "none" THEN measure_file
        ELSE IF ~IsNone(measure_file.val)
        THEN LET file == FileAt(node, measure_file.val)
             IN  IF ~file.readable THEN Raise("PermissionError")
                 ELSE IF ~file.parses THEN Raise("JSONDecodeError")
                 ELSE Return(file.doc)
        ELSE Return(SyntheticMeasure(sens, sensorId, now))

\* IsUnwired with a missing pin not taken for the sentinel
IsUnwired_KeyOnly(attrs) == "pin" \in DOMAIN attrs /\ attrs.pin = NotWired

\* the test of refresh_output_file on the pin
IsUnwired(attrs) == Get(attrs, "pin", NotWired) = NotWired

\* EntryValue with the fallback taken always
EntryValue_Raw(measure) == measure

\* data["value"] of a wired sensor, from its measure
EntryValue(measure) ==
    LET value == Get(measure, "value", EmptyDict)
    IN  IF NotNone(value, "status") /\ NotNone(value, "timestamp")
        THEN value
        ELSE measure

\* AppendEntry with a sensor that has no measurement left out of the list
AppendEntry_Skip(data_list, r) ==
    IF r.touched /\ ~r.read THEN data_list ELSE Append(data_list, r.data)

\* sensors_data.append(data) at the end of a pass that raised nothing
AppendEntry(data_list, r) == Append(data_list, r.data)

\* LoopBody with the value of a measurement that was read stamped with the
\* cycle's timestamp
LoopBody_Stamped(sens, node, sensorId, listing, ts, now) ==
    LET attrs == SensorAttrs(sens, sensorId)
        head == [id |-> sensorId, name |-> attrs.name]
    IN  IF IsUnwired(attrs)
        THEN [exc |-> "none", refreshed |-> 0, touched |-> FALSE, read |-> FALSE,
              data |-> head @@ [value |-> [status |-> "unknown", timestamp |-> ts]]]
        ELSE LET m == latest_measure(sens, node, sensorId, listing, now)
             IN  IF m.exc # "none"
                 THEN [exc |-> m.exc, refreshed |-> 1, touched |-> TRUE, read |-> FALSE]
                 ELSE IF ~IsDict(m.val) \/ ~IsDict(Get(m.val, "value", EmptyDict))
                 THEN [exc |-> "AttributeError", refreshed |-> 1, touched |-> TRUE,
                       read |-> TRUE]
                 ELSE [exc |-> "none", refreshed |-> 1, touched |-> TRUE,
                       read |-> ~IsNone(latest_measure_file(node, sensorId, listing).val),
                       data |-> head @@ [value |-> [timestamp |-> ts] @@ EntryValue(m.val)]]

\* one pass of the for loop of refresh_output_file over sensorId: the exception
\* it raises or the entry it appends, what it adds to sensors_refreshed, and
\* whether it went to the storage folder and found and read a measurement file
LoopBody(sens, node, sensorId, listing, ts, now) ==
    LET attrs == SensorAttrs(sens, sensorId)
        head == [id |-> sensorId, name |-> attrs.name]
    IN  IF IsUnwired(attrs)
        THEN [exc |-> "none", refreshed |-> 0, touched |-> FALSE, read |-> FALSE,
              data |-> head @@ [value |-> [status |-> "unknown", timestamp |-> ts]]]
        ELSE LET m == latest_measure(sens, node, sensorId, listing, now)
             IN  IF m.exc # "none"
                 THEN [exc |-> m.exc, refreshed |-> 1, touched |-> TRUE, read |-> FALSE]
                 ELSE IF ~IsDict(m.val) \/ ~IsDict(Get(m.val, "value", EmptyDict))
                 THEN [exc |-> "AttributeError", refreshed |-> 1, touched |-> TRUE,
                       read |-> TRUE]
                 ELSE [exc |-> "none", refreshed |-> 1, touched |-> TRUE,
                       read |-> ~IsNone(latest_measure_file(node, sensorId, listing).val),
                       data |-> head @@ [value |-> EntryValue(m.val)]]

\* --------------------------------------------------------------- state
VARIABLES
    sensors,            \* self._sensors: the configuration mapping, in order
    storage,            \* the storage folder: sensor id -> what is at its path
    output_file,        \* the output file: [exists, data, complete]
    exit_event,         \* self._exit_event
    pc,                 \* where run is
    i,                  \* position of the for loop of refresh_output_file
    sensors_data,       \* local of refresh_output_file
    sensors_refreshed,  \* local of refresh_output_file
    timestamp,          \* local of refresh_output_file
    clock,              \* the last instant datetime.now() returned
    err,                \* the exception of a cycle that ended run, "none" if none
    cycles,             \* calls of refresh_output_file so far
    before,             \* the output file when the current cycle started
    consulted,          \* sensors whose storage path the current cycle went to
    found,              \* measurement files the current cycle found and read
    listing,            \* latest_measure_file alone: what os.listdir returns
    result,             \* a function alone: what the call gave
    config_file,        \* the configuration file as it is now, parsed
    waits               \* calls of time.sleep so far

vars ==
    << sensors, storage, output_file, exit_event, pc, i, sensors_data,
       sensors_refreshed, timestamp, clock, err, cycles, before, consulted,
       found, listing, result,
                    config_file, waits >>

\* the locals of refresh_output_file
locals == << i, sensors_data, sensors_refreshed, timestamp >>

\* names of measurement files in the storage folder of a run
StorageNames == { <<1>>, <<2>> }

\* what a sensor's path can be in the storage folder of a run
StorageNodes ==
    { AbsentNode, FileNode } \cup DirNodes(StorageNames, { "good", "corrupt", "unreadable" })

NoOutput == [exists |-> FALSE, data |-> <<>>, complete |-> FALSE]

Pending == Raise("pending")

\* Denormalizer.__init__, with the output file not yet written
Init ==
    /\ config_file \in ConfigFiles
    /\ sensors = configure(<<>>, config_file)
    /\ storage \in [SensorIds -> StorageNodes]
    /\ output_file = NoOutput
    /\ exit_event = FALSE
    /\ pc = "loop"
    /\ i = 0
    /\ sensors_data = <<>>
    /\ sensors_refreshed = 0
    /\ timestamp = 0
    /\ clock = 0
    /\ err = "none"
    /\ cycles = 0
    /\ before = NoOutput
    /\ consulted = {}
    /\ found = 0
    /\ listing = <<>>
    /\ result = Pending
    /\ waits = 0

\* the frame of refresh_output_file is gone
Unwound ==
    /\ sensors_data' = <<>>
    /\ sensors_refreshed' = 0
    /\ timestamp' = 0

\* StartCycle with configure called again at the start of every cycle
StartCycle_Reload ==
    /\ pc = "loop"
    /\ cycles < MaxCycles
    /\ IF exit_event
       THEN /\ pc' = "returned"
            /\ UNCHANGED << sensors, locals, clock, cycles, before, consulted, found >>
       ELSE \E now \in clock..MaxClock :
               /\ clock' = now
               /\ timestamp' = format_date(now)
               /\ sensors_data' = <<>>
               /\ sensors_refreshed' = 0
               /\ i' = 1
               /\ pc' = "for"
               /\ cycles' = cycles + 1
               /\ before' = output_file
               /\ consulted' = {}
               /\ found' = 0
               /\ sensors' = configure(sensors, config_file)
    /\ UNCHANGED << storage, output_file, exit_event, err, listing, result,
                    config_file, waits >>

\* run: the while test, then refresh_output_file up to its for loop
StartCycle ==
    /\ pc = "loop"
    /\ cycles < MaxCycles
    /\ IF exit_event
       THEN /\ pc' = "returned"
            /\ UNCHANGED << locals, clock, cycles, before, consulted, found >>
       ELSE \E now \in clock..MaxClock :
               /\ clock' = now
               /\ timestamp' = format_date(now)
               /\ sensors_data' = <<>>
               /\ sensors_refreshed' = 0
               /\ i' = 1
               /\ pc' = "for"
               /\ cycles' = cycles + 1
               /\ before' = output_file
               /\ consulted' = {}
               /\ found' = 0
    /\ UNCHANGED << sensors, storage, output_file, exit_event, err, listing, result,
                    config_file, waits >>

\* ForStep with data bound to the sensor's configuration dict instead of a
\* new dict
ForStep_Aliased ==
    /\ pc = "for"
    /\ i <= Len(sensors)
    /\ LET sensorId == sensors[i].id
       IN  \E ls \in Perms(storage[sensorId].entries), now \in clock..MaxClock :
              LET r == LoopBody(sensors, storage[sensorId], sensorId, ls, timestamp, now)
              IN  /\ consulted' = IF r.touched THEN consulted \cup { sensorId } ELSE consulted
                  /\ found' = IF r.read THEN found + 1 ELSE found
                  /\ clock' = IF r.touched /\ ~r.read /\ r.exc = "none" THEN now ELSE clock
                  /\ IF r.exc = "none"
                     THEN /\ sensors_data' = AppendEntry(sensors_data, r)
                          /\ sensors_refreshed' = sensors_refreshed + r.refreshed
                          /\ i' = i + 1
                          /\ sensors' = [sensors EXCEPT ![i].attrs = r.data @@ @]
                          /\ UNCHANGED << pc, err, timestamp >>
                     ELSE /\ pc' = "crashed"
                          /\ err' = r.exc
                          /\ Unwound
                          /\ UNCHANGED << i, sensors >>
    /\ UNCHANGED << storage, output_file, exit_event, cycles, before, listing, result,
                    config_file, waits >>

\* ForStep with the output file saved at the end of every pass
ForStep_SaveEach ==
    /\ pc = "for"
    /\ i <= Len(sensors)
    /\ LET sensorId == sensors[i].id
       IN  \E ls \in Perms(storage[sensorId].entries), now \in clock..MaxClock :
              LET r == LoopBody(sensors, storage[sensorId], sensorId, ls, timestamp, now)
              IN  /\ consulted' = IF r.touched THEN consulted \cup { sensorId } ELSE consulted
                  /\ found' = IF r.read THEN found + 1 ELSE found
                  /\ clock' = IF r.touched /\ ~r.read /\ r.exc = "none" THEN now ELSE clock
                  /\ IF r.exc = "none"
                     THEN /\ sensors_data' = AppendEntry(sensors_data, r)
                          /\ sensors_refreshed' = sensors_refreshed + r.refreshed
                          /\ i' = i + 1
                          /\ output_file' = [exists |-> TRUE, complete |-> TRUE,
                                              data |-> AppendEntry(sensors_data, r)]
                          /\ UNCHANGED << pc, err, timestamp >>
                     ELSE /\ pc' = "crashed"
                          /\ err' = r.exc
                          /\ Unwound
                          /\ UNCHANGED << i, output_file >>
    /\ UNCHANGED << sensors, storage, exit_event, cycles, before, listing, result,
                    config_file, waits >>

\* refresh_output_file: one pass of the for loop; an exception leaves run,
\* which catches KeyboardInterrupt only
ForStep ==
    /\ pc = "for"
    /\ i <= Len(sensors)
    /\ LET sensorId == sensors[i].id
       IN  \E ls \in Perms(storage[sensorId].entries), now \in clock..MaxClock :
              LET r == LoopBody(sensors, storage[sensorId], sensorId, ls, timestamp, now)
              IN  /\ consulted' = IF r.touched THEN consulted \cup { sensorId } ELSE consulted
                  /\ found' = IF r.read THEN found + 1 ELSE found
                  /\ clock' = IF r.touched /\ ~r.read /\ r.exc = "none" THEN now ELSE clock
                  /\ IF r.exc = "none"
                     THEN /\ sensors_data' = AppendEntry(sensors_data, r)
                          /\ sensors_refreshed' = sensors_refreshed + r.refreshed
                          /\ i' = i + 1
                          /\ UNCHANGED << pc, err, timestamp >>
                     ELSE /\ pc' = "crashed"
                          /\ err' = r.exc
                          /\ Unwound
                          /\ UNCHANGED i
    /\ UNCHANGED << sensors, storage, output_file, exit_event, cycles, before, listing, result,
                    config_file, waits >>

\* EndFor with no wait after a cycle that saves nothing
EndFor_NoSleep ==
    /\ pc = "for"
    /\ i > Len(sensors)
    /\ IF sensors_refreshed > 0
       THEN /\ pc' = "open"
            /\ UNCHANGED << locals, waits >>
       ELSE /\ pc' = "loop"
            /\ UNCHANGED waits
            /\ i' = 0
            /\ Unwound
    /\ UNCHANGED << sensors, storage, output_file, exit_event, clock, err, cycles, before,
                    consulted, found, listing, result, config_file >>

\* EndFor with the file saved whatever sensors_refreshed is
EndFor_Always ==
    /\ pc = "for"
    /\ i > Len(sensors)
    /\ IF TRUE
       THEN /\ pc' = "open"
            /\ UNCHANGED << locals, waits >>
       ELSE /\ pc' = "wait"
            /\ UNCHANGED waits
            /\ i' = 0
            /\ Unwound
    /\ UNCHANGED << sensors, storage, output_file, exit_event, clock, err, cycles, before,
                    consulted, found, listing, result, config_file >>

\* refresh_output_file: after the loop, save when sensors_refreshed > 0, return
\* to run otherwise
EndFor ==
    /\ pc = "for"
    /\ i > Len(sensors)
    /\ IF sensors_refreshed > 0
       THEN /\ pc' = "open"
            /\ UNCHANGED << locals, waits >>
       ELSE /\ pc' = "wait"
            /\ UNCHANGED waits
            /\ i' = 0
            /\ Unwound
    /\ UNCHANGED << sensors, storage, output_file, exit_event, clock, err, cycles, before,
                    consulted, found, listing, result, config_file >>

\* save_output_file: open(self.output_file, "w") truncates the file, or fails
OpenOutput ==
    /\ pc = "open"
    /\ \E ok \in BOOLEAN :
          IF ok
          THEN /\ output_file' = [exists |-> TRUE, data |-> <<>>, complete |-> FALSE]
               /\ pc' = "dump"
               /\ UNCHANGED << locals, err >>
          ELSE /\ pc' = "crashed"
               /\ err' = "OSError"
               /\ Unwound
               /\ UNCHANGED << i, output_file >>
    /\ UNCHANGED << sensors, storage, exit_event, clock, cycles, before, consulted, found,
                    listing, result,
                    config_file, waits >>

\* save_output_file: json.dump writes the next entry, or the write fails and
\* leaves what was written
DumpStep ==
    /\ pc = "dump"
    /\ Len(output_file.data) < Len(sensors_data)
    /\ \E ok \in BOOLEAN :
          IF ok
          THEN /\ output_file' =
                     [output_file EXCEPT
                         !.data = Append(@, sensors_data[Len(output_file.data) + 1])]
               /\ UNCHANGED << pc, locals, err >>
          ELSE /\ pc' = "crashed"
               /\ err' = "OSError"
               /\ Unwound
               /\ UNCHANGED << i, output_file >>
    /\ UNCHANGED << sensors, storage, exit_event, clock, cycles, before, consulted, found,
                    listing, result, config_file, waits >>

\* save_output_file: after the last entry json.dump writes the closing bracket
\* and the with block closes the file, or the write fails and leaves the
\* entries without it
CloseOutput ==
    /\ pc = "dump"
    /\ Len(output_file.data) = Len(sensors_data)
    /\ \E ok \in BOOLEAN :
          IF ok
          THEN /\ output_file' = [output_file EXCEPT !.complete = TRUE]
               /\ pc' = "log"
               /\ UNCHANGED << locals, err >>
          ELSE /\ pc' = "crashed"
               /\ err' = "OSError"
               /\ Unwound
               /\ UNCHANGED << i, output_file >>
    /\ UNCHANGED << sensors, storage, exit_event, clock, cycles, before, consulted, found,
                    listing, result, config_file, waits >>

\* refresh_output_file: the log line after the save reads datetime.now(), and
\* refresh_output_file returns to run
LogRefreshed ==
    /\ pc = "log"
    /\ \E now \in clock..MaxClock : clock' = now
    /\ pc' = "wait"
    /\ i' = 0
    /\ Unwound
    /\ UNCHANGED << sensors, storage, output_file, exit_event, err, cycles, before,
                    consulted, found, listing, result, config_file, waits >>

\* run: time.sleep(self.refresh_interval) is called
CallSleep ==
    /\ pc = "wait"
    /\ pc' = "sleep"
    /\ waits' = waits + 1
    /\ UNCHANGED << sensors, storage, output_file, exit_event, locals, clock, err, cycles,
                    before, consulted, found, listing, result, config_file >>

\* run: time.sleep(self.refresh_interval) returns
Wake ==
    /\ pc = "sleep"
    /\ pc' = "loop"
    /\ UNCHANGED << sensors, storage, output_file, exit_event, locals, clock, err, cycles,
                    before, consulted, found, listing, result,
                    config_file, waits >>

\* KeyboardInterrupt with the signal only setting exit_event, for the while
\* test to see
KeyboardInterrupt_FlagOnly ==
    /\ pc \in { "loop", "for", "open", "dump", "log", "wait", "sleep" }
    /\ ~exit_event
    /\ exit_event' = TRUE
    /\ UNCHANGED << sensors, storage, output_file, pc, locals, clock, err, cycles, before,
                    consulted, found, listing, result,
                    config_file, waits >>

\* run: SIGINT raises KeyboardInterrupt wherever run is. In the try block it
\* takes run to its except clause; in the except clause, which is logging and
\* has not yet set exit_event, nothing catches it and run ends with it
KeyboardInterrupt ==
    /\ pc \in { "loop", "for", "open", "dump", "log", "wait", "sleep", "except" }
    /\ IF pc = "except"
       THEN /\ pc' = "stopped"
            /\ UNCHANGED locals
       ELSE /\ pc' = "except"
            /\ Unwound
            /\ UNCHANGED i
    /\ UNCHANGED << sensors, storage, output_file, exit_event, clock, err, cycles, before,
                    consulted, found, listing, result, config_file, waits >>

\* run: the except clause logs "Exiting" and sets exit_event, and run returns
Exiting ==
    /\ pc = "except"
    /\ exit_event' = TRUE
    /\ pc' = "stopped"
    /\ UNCHANGED << sensors, storage, output_file, locals, clock, err, cycles, before,
                    consulted, found, listing, result, config_file, waits >>

Next ==
    \/ StartCycle
    \/ ForStep
    \/ EndFor
    \/ OpenOutput
    \/ DumpStep
    \/ CloseOutput
    \/ LogRefreshed
    \/ CallSleep
    \/ Wake
    \/ KeyboardInterrupt
    \/ Exiting

Spec == Init /\ [][Next]_vars

\* ------------------------------------------- latest_measure_file alone
\* names of the entries of the directory latest_measure_file is given
ResolveNames == { <<1>>, <<1, 1>>, <<1, 2>>, <<2>> }

ResolveNodes == { AbsentNode, FileNode } \cup DirNodes(ResolveNames, { "good" })

\* the sensor whose directory is resolved
ResolveId == "s1"

\* one call of latest_measure_file: any directory, listed in any order
InitResolve ==
    /\ config_file = << [id |-> ResolveId, attrs |-> [name |-> ConfiguredName(ResolveId), pin |-> 4]] >>
    /\ sensors = configure(<<>>, config_file)
    /\ \E node \in ResolveNodes :
          /\ storage = [s \in SensorIds |-> IF s = ResolveId THEN node ELSE AbsentNode]
          /\ listing \in Perms(node.entries)
    /\ output_file = NoOutput
    /\ exit_event = FALSE
    /\ pc = "resolve"
    /\ i = 0
    /\ sensors_data = <<>>
    /\ sensors_refreshed = 0
    /\ timestamp = 0
    /\ clock = 0
    /\ err = "none"
    /\ cycles = 0
    /\ before = NoOutput
    /\ consulted = {}
    /\ found = 0
    /\ result = Pending
    /\ waits = 0

Resolve ==
    /\ pc = "resolve"
    /\ result' = latest_measure_file(storage[ResolveId], ResolveId, listing)
    /\ pc' = "resolved"
    /\ UNCHANGED << sensors, storage, output_file, exit_event, locals, clock, err, cycles,
                    before, consulted, found, listing,
                    config_file, waits >>

NextResolve == Resolve

SpecResolve == InitResolve /\ [][NextResolve]_vars

\* ------------------------------ run with the configuration file edited
\* what a sensor's path can be while the configuration file is edited
ReloadNodes == { AbsentNode, DirNode({ FileEntry(<<1>>, "good") }) }

\* Denormalizer.__init__ as in Init, over the storage folders of ReloadNodes
InitReload ==
    /\ config_file \in ConfigFiles
    /\ sensors = configure(<<>>, config_file)
    /\ storage \in [SensorIds -> ReloadNodes]
    /\ output_file = NoOutput
    /\ exit_event = FALSE
    /\ pc = "loop"
    /\ i = 0
    /\ sensors_data = <<>>
    /\ sensors_refreshed = 0
    /\ timestamp = 0
    /\ clock = 0
    /\ err = "none"
    /\ cycles = 0
    /\ before = NoOutput
    /\ consulted = {}
    /\ found = 0
    /\ listing = <<>>
    /\ result = Pending
    /\ waits = 0

\* somebody rewrites sensors.toml while run is going
EditConfig ==
    /\ pc \in { "loop", "for", "open", "dump", "log", "wait", "sleep" }
    /\ config_file' \in ConfigFiles \ { config_file }
    /\ UNCHANGED << sensors, storage, output_file, exit_event, pc, locals, clock, err,
                    cycles, before, consulted, found, listing, result, waits >>

NextReload ==
    \/ Next
    \/ EditConfig

SpecReload == InitReload /\ [][NextReload]_vars

\* ------------------------------------- the body of the for loop alone
\* kinds of measurement file the body of the loop is given
EntryTags ==
    { "good", "withid", "nostatus", "notimestamp", "novalue", "nullvalue", "nullstatus",
      "nulltimestamp", "nonobject", "corrupt", "unreadable" }

EntryNodes == { AbsentNode, FileNode } \cup DirNodes(StorageNames, EntryTags)

\* one pass of the for loop of refresh_output_file: one configured sensor, any
\* directory listed in any order, any instant of the cycle
InitEntry ==
    /\ config_file \in UNION { { << [id |-> s, attrs |-> a] >>
                                 : a \in AttributeTables(s)
                                       \cup { [name |-> ConfiguredName(s), pin |-> 4, index |-> 7] } }
                               : s \in SensorIds }
    /\ sensors = configure(<<>>, config_file)
    /\ \E node \in EntryNodes :
          /\ storage = [s \in SensorIds |-> IF s = sensors[1].id THEN node ELSE AbsentNode]
          /\ listing \in Perms(node.entries)
    /\ clock \in 0..MaxClock
    /\ timestamp \in { format_date(t) : t \in 0..clock }
    /\ output_file = NoOutput
    /\ exit_event = FALSE
    /\ pc = "body"
    /\ i = 1
    /\ sensors_data = <<>>
    /\ sensors_refreshed = 0
    /\ err = "none"
    /\ cycles = 1
    /\ before = NoOutput
    /\ consulted = {}
    /\ found = 0
    /\ result = Pending
    /\ waits = 0

Body ==
    /\ pc = "body"
    /\ result' = LoopBody(sensors, storage[sensors[1].id], sensors[1].id, listing, timestamp, clock)
    /\ pc' = "bodied"
    /\ UNCHANGED << sensors, storage, output_file, exit_event, locals, clock, err, cycles,
                    before, consulted, found, listing, config_file, waits >>

NextEntry == Body

SpecEntry == InitEntry /\ [][NextEntry]_vars

\* --------------------------------------------------------- properties
\* the sensor at position k of the configuration is not wired: no pin, or pin -1
Unwired(k) ==
    IF "pin" \in DOMAIN sensors[k].attrs THEN sensors[k].attrs.pin = -1 ELSE TRUE

\* refresh_output_file is running
InCycle == pc \in { "for", "open", "dump", "log" }

\* save_output_file is running
Saving == pc \in { "open", "dump" }

\* d has one entry per configured sensor, in configuration order, with the
\* sensor's id and configured name
OnePerSensor(d) ==
    /\ Len(d) = Len(sensors)
    /\ \A k \in 1..Len(d) :
          /\ d[k].id = sensors[k].id
          /\ d[k].name = sensors[k].attrs.name
    /\ \A k, j \in 1..Len(d) : k # j => d[k].id # d[j].id

\* the sensor's path is a directory with no regular file in it
NoRegularFile(id) ==
    /\ storage[id].kind = "dir"
    /\ \A e \in storage[id].entries : ~e.isfile

\* C1: the list a cycle hands to save_output_file, and every list written out
\* in full, has exactly one entry per configured sensor, in configuration
\* order, each with the sensor's id and configured name.
C1_OneEntryPerSensor ==
    /\ Saving => OnePerSensor(sensors_data)
    /\ output_file.complete => OnePerSensor(output_file.data)

\* C1 witness: a full list of two entries was written although the first
\* sensor, which is wired, has nothing in the storage folder.
C1_Witness ==
    /\ output_file.complete
    /\ Len(sensors) = 2
    /\ ~Unwired(1)
    /\ storage[sensors[1].id].kind = "absent"
    /\ sensors[1].id = "s2"

\* C2 (as claimed): the output file differs from what it was when the cycle
\* started only if the cycle found and read at least one measurement file.
C2_WritesOnlyIfRefreshed == output_file # before => found > 0

\* C3 (as claimed): a measurement file that cannot be opened or parsed never
\* ends the cycle with sensors after it left unprocessed.
C3_ReadErrorKeepsCycle ==
    ~(pc = "crashed" /\ err \in { "PermissionError", "JSONDecodeError" } /\ i < Len(sensors))

\* C4 (as claimed): run ends only on the shutdown signal; a failure in a cycle
\* never ends it.
C4_OnlySignalStops == pc # "crashed"

\* C5: once run has caught the interrupt, and once exit_event is set, no step
\* starts a cycle or changes the output file.
C5_NothingAfterSignal ==
    [][(exit_event \/ pc = "except") => /\ output_file' = output_file
                                        /\ cycles' = cycles]_vars

\* C5 witness: the signal came during the wait after a cycle that wrote, with
\* cycles still to run, and run has stopped.
C5_Witness ==
    /\ exit_event
    /\ pc = "stopped"
    /\ i = 0
    /\ cycles = 1
    /\ cycles < MaxCycles
    /\ output_file.complete

\* C6 (as claimed): when run has stopped on the signal, the output file is not
\* there or holds a list written in full.
C6_NeverPartial == pc = "stopped" => (~output_file.exists \/ output_file.complete)

\* C7: during a cycle, the entry of every unwired sensor processed so far is
\* {status: "unknown", timestamp: the cycle's timestamp}, the cycle has not
\* gone to the storage folder for it, and sensors_refreshed counts wired
\* sensors only.
C7_UnwiredUnknown ==
    InCycle =>
        /\ \A k \in 1..Len(sensors_data) :
              Unwired(k) =>
                  /\ sensors_data[k].value = [status |-> "unknown", timestamp |-> timestamp]
                  /\ sensors[k].id \notin consulted
        /\ sensors_refreshed <= Cardinality({ k \in 1..Len(sensors_data) : ~Unwired(k) })

\* C7 witness: a sensor with no pin, whose directory holds a good measurement,
\* was processed after the clock moved on from the cycle's start.
C7_Witness ==
    /\ pc = "for"
    /\ Len(sensors_data) = 2
    /\ "pin" \notin DOMAIN sensors[2].attrs
    /\ storage[sensors[2].id] = DirNode({ FileEntry(<<1>>, "good") })
    /\ timestamp < format_date(clock)

\* C8: for a wired sensor whose path does not exist, latest_measure_file
\* returns None, the cycle never ends at that sensor, and its entry is
\* {id, configured name, value: {status: "unknown", timestamp: an instant of
\* the cycle}}.
C8_MissingDirUnknown ==
    \A k \in 1..Len(sensors) :
        LET id == sensors[k].id
        IN  (~Unwired(k) /\ storage[id].kind = "absent") =>
                /\ latest_measure_file(storage[id], id, <<>>) = Return(NoneVal)
                /\ ~(pc = "crashed" /\ i = k)
                /\ (InCycle /\ k <= Len(sensors_data)) =>
                      /\ DOMAIN sensors_data[k] = { "id", "name", "value" }
                      /\ sensors_data[k].id = id
                      /\ sensors_data[k].name = sensors[k].attrs.name
                      /\ DOMAIN sensors_data[k].value = { "status", "timestamp" }
                      /\ sensors_data[k].value.status = "unknown"
                      /\ sensors_data[k].value.timestamp \in timestamp..format_date(clock)

\* C8 witness: the list being written has the entry of a wired sensor with no
\* directory, stamped later than the cycle's start.
C8_Witness ==
    /\ pc = "dump"
    /\ Len(sensors) = 2
    /\ ~Unwired(2)
    /\ storage[sensors[2].id].kind = "absent"
    /\ sensors_data[2].value.timestamp > timestamp

\* C9 (as claimed): a wired sensor whose directory exists and holds no regular
\* file never ends the cycle.
C9_EmptyDirContinues ==
    \A k \in 1..Len(sensors) :
        (~Unwired(k) /\ NoRegularFile(sensors[k].id)) => ~(pc = "crashed" /\ i = k)

\* a <= b as strings: a is a prefix of b, or smaller at the first difference
LexLeq(a, b) ==
    \/ /\ Len(a) <= Len(b)
       /\ \A k \in 1..Len(a) : a[k] = b[k]
    \/ \E k \in 1..Len(a) :
          /\ k <= Len(b)
          /\ a[k] < b[k]
          /\ \A j \in 1..(k - 1) : a[j] = b[j]

\* C10: when the directory holds a regular file, latest_measure_file returns
\* the path, in that directory, of the regular file no regular file's name
\* exceeds, whatever the order of the listing.
C10_LatestIsMax ==
    (pc = "resolved" /\ \E e \in storage[ResolveId].entries : e.isfile) =>
        /\ result.exc = "none"
        /\ result.val.dir = ResolveId
        /\ \E e \in storage[ResolveId].entries : e.isfile /\ e.name = result.val.base
        /\ \A e \in storage[ResolveId].entries : e.isfile => LexLeq(e.name, result.val.base)

\* C10 witness: the listing gives the greatest regular file first and a
\* subdirectory of greater name last, and the file was returned.
C10_Witness ==
    /\ pc = "resolved"
    /\ Len(listing) = 3
    /\ listing[1].isfile /\ listing[1].name = <<1, 2>>
    /\ listing[2].isfile /\ listing[2].name = <<1>>
    /\ ~listing[3].isfile /\ listing[3].name = <<2>>
    /\ result = Return(PathJoin(ResolveId, <<1, 2>>))

\* the regular files of the sensor's directory
RegularEntries(id) == { e \in storage[id].entries : e.isfile }

\* the sensor's directory holds a regular file
HasLatest(id) == storage[id].kind = "dir" /\ RegularEntries(id) # {}

\* the regular file of greatest name in the sensor's directory
LatestEntry(id) ==
    CHOOSE e \in RegularEntries(id) : \A f \in RegularEntries(id) : LexLeq(f.name, e.name)

\* the sensor's latest measurement file opens and parses
LatestReadable(id) ==
    HasLatest(id) /\ LatestEntry(id).body.readable /\ LatestEntry(id).body.parses

\* the record has value.status and value.timestamp, neither of them null
HasStatusAndTimestamp(doc) ==
    /\ "value" \in DOMAIN doc
    /\ "nonobject" \notin DOMAIN doc.value
    /\ { "status", "timestamp" } \subseteq DOMAIN doc.value
    /\ ~IsNull(doc.value.status)
    /\ ~IsNull(doc.value.timestamp)

\* C11: for a wired sensor whose latest record has value.status and
\* value.timestamp, the pass raises nothing and its entry is {id: the
\* configuration key, name: the configured name, value: the record's value
\* object}, nothing of the record's own id or name.
C11_NestedValueKept ==
    LET id == sensors[1].id
    IN  (/\ pc = "bodied"
         /\ ~Unwired(1)
         /\ LatestReadable(id)
         /\ HasStatusAndTimestamp(LatestEntry(id).body.doc)) =>
            /\ result.exc = "none"
            /\ result.data = [id |-> id,
                              name |-> ConfiguredName(id),
                              value |-> LatestEntry(id).body.doc.value]

\* C11 witness: the latest of two files is a record with its own id and name,
\* listed first, and the entry carries the configured ones.
C11_Witness ==
    /\ pc = "bodied"
    /\ ~Unwired(1)
    /\ Len(listing) = 2
    /\ listing[1] = FileEntry(<<2>>, "withid")
    /\ listing[2] = FileEntry(<<1>>, "nostatus")
    /\ result.exc = "none"
    /\ result.data.id = sensors[1].id
    /\ result.data.value = [status |-> "ok", timestamp |-> 0]

\* C17 (as claimed): for a wired sensor whose latest record lacks value.status
\* or value.timestamp, the pass raises nothing and the entry's value is the
\* whole record.
C17_FallbackWholeRecord ==
    LET id == sensors[1].id
    IN  (/\ pc = "bodied"
         /\ ~Unwired(1)
         /\ LatestReadable(id)
         /\ ~HasStatusAndTimestamp(LatestEntry(id).body.doc)) =>
            /\ result.exc = "none"
            /\ result.data.value = LatestEntry(id).body.doc

\* no configured sensor is wired
AllUnwired == \A k \in 1..Len(sensors) : Unwired(k)

\* the ids of a list of entries, in order
Ids(d) == [k \in 1..Len(d) |-> d[k].id]

\* C12 (as claimed): when writing the output file fails, run goes on and the
\* output file is what it was before the cycle.
C12_WriteFailureContinues == err = "OSError" => (pc # "crashed" /\ output_file = before)

\* C13 (as claimed): every cycle starts from the configuration file as it then
\* is.
C13_RereadEachCycle ==
    [][(pc = "loop" /\ pc' = "for") => sensors' = configure(<<>>, config_file)]_vars

\* C13 (amended): the configuration is read at construction only; no step, a
\* cycle's start included, changes the sensors mapping whatever the
\* configuration file has become, and every list written out in full has the
\* ids of that mapping.
C13_ConfiguredOnce ==
    [][/\ sensors' = sensors
       /\ (output_file'.complete /\ output_file' # output_file) =>
              Ids(output_file'.data) = Ids(sensors)]_vars

\* C13 witness: a sensor was added to the configuration file before the second
\* cycle, which wrote a list without it.
C13_Witness ==
    /\ pc = "sleep"
    /\ cycles = 2
    /\ Len(sensors) = 1
    /\ Len(config_file) = 2
    /\ config_file[1] = [id |-> sensors[1].id, attrs |-> [name |-> sensors[1].attrs.name, pin |-> 4]]
    /\ output_file.complete
    /\ Len(output_file.data) = 1

\* C14: no wait comes before the first cycle, and cycles and waits alternate:
\* a cycle runs after as many waits as cycles before it, a wait after as many
\* cycles as waits with it.
C14_CycleThenWait ==
    /\ waits <= cycles
    /\ pc = "loop" => waits = cycles
    /\ (InCycle \/ pc = "wait") => waits = cycles - 1
    /\ pc = "sleep" => (waits = cycles /\ cycles >= 1)

\* C14 witness: the second cycle is running after exactly one wait.
C14_Witness ==
    /\ pc = "for"
    /\ cycles = 2
    /\ waits = 1
    /\ i = 2

\* the value is the made-up one of a sensor without measurement
IsSynthetic(v) == DOMAIN v = { "status", "timestamp" } /\ v.status = "unknown"

\* two entries are the same, or the same but for the timestamp of a made-up value
SameButStamp(a, b) ==
    \/ a = b
    \/ /\ a.id = b.id
       /\ a.name = b.name
       /\ IsSynthetic(a.value)
       /\ IsSynthetic(b.value)

\* C15: when a cycle has written its list in full over the full list of the
\* cycle before (same configuration, same storage folder), the two lists have
\* the same entries in the same order, but for the timestamps of made-up values.
C15_SameOutput ==
    (output_file.complete /\ before.complete) =>
        /\ Len(output_file.data) = Len(before.data)
        /\ \A k \in 1..Len(before.data) : SameButStamp(output_file.data[k], before.data[k])

\* C15 witness: the second cycle wrote a measurement and a made-up value with
\* a later timestamp than the first cycle's.
C15_Witness ==
    /\ pc = "sleep"
    /\ cycles = 2
    /\ output_file.complete
    /\ before.complete
    /\ output_file # before
    /\ Len(output_file.data) = 2
    /\ output_file.data[1].value.status = "ok"

\* C16 (as claimed): at the end of the for loop, sensors_refreshed is the
\* number of measurement files the cycle found and read.
C16_CountsResolved ==
    ((pc = "for" /\ i > Len(sensors)) \/ Saving) => sensors_refreshed = found

\* C18: the sensors mapping is what configure built from the configuration
\* file at construction: same ids in the same order, same name, pin and index.
C18_SensorsImmutable == sensors = configure(<<>>, config_file)

\* C18 witness: two cycles have run over a wired sensor with a measurement
\* and an unwired one.
C18_Witness ==
    /\ pc = "sleep"
    /\ cycles = 2
    /\ Len(sensors) = 2
    /\ ~Unwired(1)
    /\ Unwired(2)
    /\ output_file.complete
    /\ output_file.data[1].value.status = "ok"

\* C19: with no wired sensor the output file is never created, and a cycle that
\* reaches the end of its for loop goes on to save exactly when some sensor is
\* wired.
C19_WritesIffWired ==
    /\ [](AllUnwired => output_file = NoOutput)
    /\ [][(pc = "for" /\ i > Len(sensors) /\ pc' \in { "open", "wait" }) =>
              (pc' = "open" <=> ~AllUnwired)]_vars

\* C19 witness: two cycles over two unwired sensors have run to their end and
\* there is no output file.
C19_Witness ==
    /\ pc = "sleep"
    /\ cycles = 2
    /\ Len(sensors) = 2
    /\ AllUnwired
    /\ ~output_file.exists

\* C20: the output file is what it was when the cycle started as long as the
\* for loop runs, and still is when an error of a sensor's measurement ended
\* the cycle.
C20_NoPartialList ==
    /\ pc = "for" => output_file = before
    /\ (pc = "crashed" /\ err # "OSError") => output_file = before

\* C20 witness: the cycle ended on the corrupt measurement of the second
\* sensor, after the entry of the first was made, and nothing was written.
C20_Witness ==
    /\ pc = "crashed"
    /\ err = "JSONDecodeError"
    /\ i = 2
    /\ ~Unwired(1)
    /\ output_file = before
====
